---- MODULE Spec2Model ----
(***************************************************************************)
(* The composite (hierarchical) drop manager of dfms, Island tier          *)
(* (DataIslandManager): session registry, graph partitioning, and the      *)
(* fan-out of commands to the sub-managers over a multiprocessing          *)
(* ThreadPool (Python 2.7 semantics of Pool.map).                          *)
(***************************************************************************)
EXTENDS Integers, Sequences, FiniteSets, TLC

VARIABLES
    dmHosts,     \* self._dmHosts: the list of directly managed hosts
    nThreads,    \* size of self._tp, fixed at construction
    sessionIds,  \* self._sessionIds
    graph,       \* self._graph: uid -> dropSpec
    drop_rels,   \* self._drop_rels: sessionId -> host -> host -> [DROPRel]
    taskqueue,   \* chunks handed to self._tp and not yet finished, in order
    mapres,      \* the MapResult the calling thread holds
    thrExs,      \* the exceptions dictionary of the fan-out in progress
    pc,          \* position of the calling thread
    cur,         \* the call in progress (or the last one): its arguments and locals
    result,      \* how the last call ended: returned or raised
    log,         \* what the live calls did to the hosts so far
    collect,     \* the collect dictionary of the fan-out in progress (allGraphs)
    dmChecker,   \* self._dmCheckerEvt and the position of the DMChecker thread
    tpState,     \* state of self._tp: RUN until shutdown closes it
    ensuring,    \* the calls of ensureDM in progress, one frame per caller
    probe,       \* the call of portIsOpen / writeToRemotePort in progress
    destroyed    \* observer: the sessions destroySession has returned for and
                 \* addGraphSpec was not called for since

vars == <<dmHosts, nThreads, sessionIds, graph, drop_rels, taskqueue, mapres,
          thrExs, pc, cur, result, log, collect, dmChecker, tpState, ensuring,
          probe, destroyed>>

----------------------------------------------------------------------------
(* Bounds of the model *)

\* longest session registry explored
MaxSessions == 2
\* most chunks left in the pool (stragglers of failed fan-outs included) when a
\* new call is accepted
MaxBacklog == 1

\* longest host list explored
MaxHosts == 4

\* pool size limit of CompositeManager.__init__
MaxPoolThreads == 20

\* host names: two of two characters, one longer
Hosts == {"h1", "h2", "n10"}
HostLists == {<<>>, <<"h1">>, <<"h1", "h2">>, <<"n10">>}
Sids == {"s1", "s2"}
Absent == "<absent>"

----------------------------------------------------------------------------
(* Helpers *)

Min(a, b) == IF a < b THEN a ELSE b
Max(a, b) == IF a > b THEN a ELSE b
Range(s) == {s[i] : i \in 1..Len(s)}

RECURSIVE RemoveFirst(_, _)
\* list.remove(x): drops the first occurrence
RemoveFirst(s, x) ==
    IF s = <<>> THEN <<>>
    ELSE IF Head(s) = x THEN Tail(s)
    ELSE <<Head(s)>> \o RemoveFirst(Tail(s), x)

RemoveAt(s, k) == SubSeq(s, 1, k - 1) \o SubSeq(s, k + 1, Len(s))

----------------------------------------------------------------------------
(* The thread pool: multiprocessing.pool.ThreadPool, Python 2.7 *)

\* n_threads = max(1,min(len(dmHosts),20))
PoolSize(hosts) == Max(1, Min(Len(hosts), MaxPoolThreads))

\* Pool.map_async: chunksize, extra = divmod(len(iterable), len(pool) * 4)
ChunkSize(len, n) ==
    IF len = 0 THEN 0
    ELSE (len \div (n * 4)) + (IF len % (n * 4) # 0 THEN 1 ELSE 0)

RECURSIVE GetTasks(_, _)
\* Pool._get_tasks: consecutive slices of size items
GetTasks(items, size) ==
    IF items = <<>> THEN <<>>
    ELSE <<SubSeq(items, 1, Min(size, Len(items)))>>
         \o GetTasks(SubSeq(items, size + 1, Len(items)), size)

NoExc == [type |-> "none", host |-> Absent]
NoResult == [job |-> 0, left |-> 0, ready |-> TRUE, success |-> TRUE,
             exc |-> NoExc, incache |-> FALSE]

\* the chunks map_async puts on the task queue for one fan-out
Chunks(call, wrapper, f, items) ==
    LET slices == GetTasks(items, ChunkSize(Len(items), nThreads))
    IN  [i \in 1..Len(slices) |->
            [call |-> call, wrapper |-> wrapper, f |-> f, items |-> slices[i]]]

\* MapResult.__init__: with nothing to do the result is ready at once
NewMapResult(call, items) ==
    LET size == ChunkSize(Len(items), nThreads)
    IN  [job |-> call,
         left |-> IF size = 0 THEN 0 ELSE Len(GetTasks(items, size)),
         ready |-> (size = 0), success |-> TRUE, exc |-> NoExc,
         incache |-> (size # 0)]

\* MapResult._set: the first failed chunk makes the result ready and drops the
\* job from the cache; results of a job that left the cache are thrown away
SetResult(res, job, ok, exc) ==
    IF res.job = job /\ res.incache
    THEN IF ok
         THEN [res EXCEPT !.left = @ - 1, !.ready = (res.left = 1),
                          !.incache = (res.left # 1)]
         ELSE [res EXCEPT !.success = FALSE, !.exc = exc, !.ready = TRUE,
                          !.incache = FALSE]
    ELSE res

\* the chunks the worker threads can be holding: the oldest nThreads ones
InFlight == 1..Min(nThreads, Len(taskqueue))

\* a call identifier no straggler chunk carries
FreshCall ==
    CHOOSE n \in 1..(Len(taskqueue) + 1) :
        /\ \A i \in 1..Len(taskqueue) : taskqueue[i].call # n
        /\ \A m \in 1..(n - 1) : \E i \in 1..Len(taskqueue) : taskqueue[i].call = m

\* the log records what the call in progress (or the call that has just ended)
\* does to the hosts; chunks of older calls run on without a record
Live(l, call) == {e \in l : e.call = call}

\* what a work item carries besides the host: nothing, a bucket of dropSpecs,
\* the uids of a node, or the relationships of a node
NoArg == [none |-> TRUE]

\* an event of the log: ev was run for host at port with arg and returned
\* (ok) or raised; n counts the events of this kind for this host in the call
Event(call, ev, host, ok) ==
    [call |-> call, ev |-> ev, host |-> host, ok |-> ok, port |-> "dmPort",
     arg |-> NoArg,
     n |-> 1 + Cardinality({e \in log : e.call = call /\ e.ev = ev /\ e.host = host})]

\* the event of a remote call made through self.dmAt(host, port)
Delivery(call, ev, host, ok, port, arg) ==
    [Event(call, ev, host, ok) EXCEPT !.port = port, !.arg = arg]

----------------------------------------------------------------------------
(* Ensuring a sub-manager *)

\* ensureDM: probe; when closed start the DM over ssh and probe again
ensureDM(open1, status, open2) ==
    IF open1 THEN "ok"
    ELSE IF status # 0 THEN "DaliugeException"
    ELSE IF ~open2 THEN "DaliugeException"
    ELSE "ok"

\* ensureDM was run for the host, and whether it returned or raised
EnsureEvents(call, host, ens) == {Event(call, "ensureDM", host, ens = "ok")}

----------------------------------------------------------------------------
(* The calling thread *)

NoCall == [op |-> "none", sid |-> Absent, call |-> 0, graphSpec |-> <<>>,
           completedDrops |-> <<>>, unmet |-> <<>>]

Returned == [kind |-> "ok", action |-> Absent, sid |-> Absent, hosts |-> {}]
Raised(kind) == [kind |-> kind, action |-> Absent, sid |-> Absent, hosts |-> {}]
\* SubManagerException(msg, thrExs), msg naming the action and the session
SubManagerException(action, sid, exs) ==
    [kind |-> "SubManagerException", action |-> action, sid |-> sid,
     hosts |-> DOMAIN exs]

NoExs == <<>>

\* allGraphs = {}
NoGraphs == <<>>

\* iterable = iterable or self._dmHosts
HostItems(hosts) ==
    [i \in 1..Len(hosts) |-> [host |-> hosts[i], pair |-> FALSE, arg |-> NoArg]]

\* self._tp.map(...): map_async followed by a blocking get()
MapAsync(call, wrapper, f, items) ==
    /\ taskqueue' = taskqueue \o Chunks(call, wrapper, f, items)
    /\ mapres' = NewMapResult(call, items)
    /\ thrExs' = NoExs

\* MapResult.get() returns once the result is ready
MapReady(res) == res.ready

\* variant: replicate returns whatever the fan-out did
ReplicateOutcomeQuiet(res, exs, action, sid) == Returned

\* how replicate ends: get() re-raises the exception of the failed chunk,
\* otherwise a non-empty thrExs is wrapped in a SubManagerException
ReplicateOutcome(res, exs, action, sid) ==
    IF ~res.success THEN Raised(res.exc.type)
    ELSE IF DOMAIN exs # {} THEN SubManagerException(action, sid, exs)
    ELSE Returned

\* a new call is accepted (bound on the chunks left behind by earlier calls)
Accept ==
    /\ pc = "idle"
    /\ tpState = "RUN"
    /\ Len(taskqueue) <= MaxBacklog

\* the frame of a call: its arguments (the dropSpecs of graphSpec are the
\* client's objects, which addGraphSpec changes in place) and the
\* relationships removeUnmetRelationships returned to it
Call(op, sid, graphSpec, completedDrops, unmet) ==
    [op |-> op, sid |-> sid, call |-> FreshCall, graphSpec |-> graphSpec,
     completedDrops |-> completedDrops, unmet |-> unmet]

\* the call ends: it returns or raises out
Finish(out) ==
    /\ result' = out
    /\ pc' = "done"
    /\ thrExs' = NoExs
    /\ mapres' = NoResult

\* the outcome is handed to the client and the frame of the call is gone; the
\* calling thread is free for the next call
Respond ==
    /\ pc = "done"
    /\ pc' = "idle"
    /\ cur' = NoCall
    /\ result' = Returned
    /\ log' = {}
    /\ collect' = NoGraphs
    /\ UNCHANGED destroyed
    /\ UNCHANGED <<ensuring, probe>>
    /\ UNCHANGED <<dmChecker, tpState>>
    /\ UNCHANGED <<dmHosts, nThreads, sessionIds, graph, drop_rels, taskqueue,
                   mapres, thrExs>>

----------------------------------------------------------------------------
(* createSession / destroySession *)

\* createSession up to the blocking map of replicate
CreateSession(sid) ==
    /\ Accept
    /\ cur' = Call("createSession", sid, <<>>, <<>>, <<>>)
    /\ Len(sessionIds) < MaxSessions
    /\ MapAsync(FreshCall, "_do_in_host", "createSession", HostItems(dmHosts))
    /\ pc' = "createSession"
    /\ log' = {}
    /\ UNCHANGED destroyed
    /\ UNCHANGED <<ensuring, probe>>
    /\ UNCHANGED <<collect, dmChecker, tpState>>
    /\ UNCHANGED <<dmHosts, nThreads, sessionIds, graph, drop_rels, result>>

\* variant: the session id is recorded whatever replicate did
CreateSessionRegistryAlways(ids, sid, out) == Append(ids, sid)

\* the registry after createSession's replicate ended with out
CreateSessionRegistry(ids, sid, out) ==
    IF out.kind = "ok" THEN Append(ids, sid) ELSE ids

\* replicate returns or raises; on return the session id is recorded
CreateSessionEnd ==
    /\ pc = "createSession"
    /\ MapReady(mapres)
    /\ LET out == ReplicateOutcome(mapres, thrExs, "creating sessions", cur.sid)
       IN  /\ sessionIds' = CreateSessionRegistry(sessionIds, cur.sid, out)
           /\ Finish(out)
    /\ UNCHANGED destroyed
    /\ UNCHANGED <<ensuring, probe>>
    /\ UNCHANGED <<collect, dmChecker, tpState>>
    /\ UNCHANGED <<dmHosts, nThreads, graph, drop_rels, taskqueue, cur, log>>

\* destroySession up to the blocking map of replicate
DestroySession(sid) ==
    /\ Accept
    /\ cur' = Call("destroySession", sid, <<>>, <<>>, <<>>)
    /\ MapAsync(FreshCall, "_do_in_host", "destroySession", HostItems(dmHosts))
    /\ pc' = "destroySession"
    /\ log' = {}
    /\ UNCHANGED destroyed
    /\ UNCHANGED <<ensuring, probe>>
    /\ UNCHANGED <<collect, dmChecker, tpState>>
    /\ UNCHANGED <<dmHosts, nThreads, sessionIds, graph, drop_rels, result>>

\* the registry after destroySession's replicate ended with out
DestroySessionRegistry(ids, sid, out) ==
    IF out.kind = "ok" THEN RemoveFirst(ids, sid) ELSE ids

\* replicate returns or raises; on return self._sessionIds.remove(sessionId),
\* which raises ValueError for an id that is not in the list
DestroySessionEnd ==
    /\ pc = "destroySession"
    /\ MapReady(mapres)
    /\ LET out == ReplicateOutcome(mapres, thrExs, "creating sessions", cur.sid)
       IN  /\ sessionIds' = DestroySessionRegistry(sessionIds, cur.sid, out)
           /\ Finish(IF out.kind = "ok" /\ cur.sid \notin Range(sessionIds)
                     THEN Raised("ValueError") ELSE out)
           /\ destroyed' = IF out.kind = "ok" /\ cur.sid \in Range(sessionIds)
                           THEN destroyed \cup {cur.sid} ELSE destroyed
    /\ UNCHANGED <<ensuring, probe>>
    /\ UNCHANGED <<collect, dmChecker, tpState>>
    /\ UNCHANGED <<dmHosts, nThreads, graph, drop_rels, taskqueue, cur, log>>

----------------------------------------------------------------------------
(* Drop specifications and the graph *)

\* 'node', the partition attribute of the DataIslandManager
Oids == {"A", "B"}
Other(oid) == IF oid = "A" THEN "B" ELSE "A"
Nodes == Hosts \cup {"h3"}

DropSpec(oid, uid, node, links) ==
    [oid |-> oid, uid |-> uid, node |-> node, links |-> links]

\* the dropSpecs clients submit: drop A on either host, alone or linked to B;
\* drop B on either host, linked to A, with a uid of its own, on a host that
\* is not managed here, or without a node
DropSpecs ==
    {DropSpec("A", Absent, "h1", <<>>), DropSpec("A", Absent, "h1", <<"B">>),
     DropSpec("A", Absent, "h2", <<>>),
     DropSpec("B", Absent, "h1", <<>>), DropSpec("B", Absent, "h2", <<>>),
     DropSpec("B", Absent, "h2", <<"A">>), DropSpec("B", "uB", "h2", <<>>),
     DropSpec("B", Absent, "h3", <<>>), DropSpec("B", Absent, Absent, <<>>)}

\* the graphs clients submit: no drop, one drop, or the two drops in any order
GraphSpecs ==
    {<<>>}
    \cup {<<d>> : d \in DropSpecs}
    \cup {<<p[1], p[2]>> : p \in {q \in DropSpecs \X DropSpecs : q[1].oid # q[2].oid}}

DROPRel(lhs, rel, rhs) == [lhs |-> lhs, rel |-> rel, rhs |-> rhs]

uid_for_drop(dropSpec) ==
    IF dropSpec.uid # Absent THEN dropSpec.uid ELSE dropSpec.oid

\* the two checks addGraphSpec makes on a dropSpec before it takes it
InPartition(dropSpec, hosts) ==
    /\ dropSpec.node # Absent
    /\ dropSpec.node \in Range(hosts)

\* index of the first dropSpec addGraphSpec rejects, 0 when there is none
FirstInvalid(graphSpec, hosts) ==
    IF \A i \in 1..Len(graphSpec) : InPartition(graphSpec[i], hosts) THEN 0
    ELSE CHOOSE i \in 1..Len(graphSpec) :
            /\ ~InPartition(graphSpec[i], hosts)
            /\ \A j \in 1..(i - 1) : InPartition(graphSpec[j], hosts)

RECURSIVE InsertAll(_, _)
\* variant: the graph is indexed by oid
InsertAllByOid(g, dropSpecs) ==
    [k \in DOMAIN g \cup {dropSpecs[i].oid : i \in 1..Len(dropSpecs)} |->
        IF \E i \in 1..Len(dropSpecs) : dropSpecs[i].oid = k
        THEN dropSpecs[CHOOSE i \in 1..Len(dropSpecs) :
                          /\ dropSpecs[i].oid = k
                          /\ \A j \in (i + 1)..Len(dropSpecs) : dropSpecs[j].oid # k]
        ELSE g[k]]

\* self._graph[uid_for_drop(dropSpec)] = dropSpec, for each dropSpec in turn
InsertAll(g, dropSpecs) ==
    IF dropSpecs = <<>> THEN g
    ELSE InsertAll((uid_for_drop(Head(dropSpecs)) :> Head(dropSpecs)) @@ g,
                   Tail(dropSpecs))

\* the dropSpecs the loop of addGraphSpec has put in the graph when it ends:
\* all of them, or those before the first one it rejects
Taken(graphSpec, hosts) ==
    IF FirstInvalid(graphSpec, hosts) = 0 THEN graphSpec
    ELSE SubSeq(graphSpec, 1, FirstInvalid(graphSpec, hosts) - 1)

\* perPartition[partition]
Bucket(graphSpec, partition) ==
    SelectSeq(graphSpec, LAMBDA d : d.node = partition)

Partitions(graphSpec) == {graphSpec[i].node : i \in 1..Len(graphSpec)}

\* the orders in which a dictionary may hand out the keys in S
Orders(S) ==
    {o \in [1..Cardinality(S) -> S] : \A i, j \in 1..Cardinality(S) : o[i] = o[j] => i = j}

BucketOids(bucket) == {bucket[i].oid : i \in 1..Len(bucket)}

\* graph_loader.removeUnmetRelationships, what it leaves of one dropSpec: the
\* links to drops of the same bucket
Pruned(dropSpec, oids) ==
    [dropSpec EXCEPT !.links = SelectSeq(@, LAMBDA o : o \in oids)]

\* graph_loader.removeUnmetRelationships, the relationships it removes from
\* one dropSpec and returns
UnmetOf(dropSpec, oids) ==
    LET missing == SelectSeq(dropSpec.links, LAMBDA o : o \notin oids)
    IN  [i \in 1..Len(missing) |-> DROPRel(missing[i], "STREAM", dropSpec.oid)]

RECURSIVE Unmet(_, _)
Unmet(bucket, oids) ==
    IF bucket = <<>> THEN <<>>
    ELSE UnmetOf(Head(bucket), oids) \o Unmet(Tail(bucket), oids)

RECURSIVE removeUnmetRelationships(_, _)
\* inter_partition_rels: the removed relationships of the buckets in order
removeUnmetRelationships(graphSpec, order) ==
    IF order = <<>> THEN <<>>
    ELSE LET bucket == Bucket(graphSpec, Head(order))
         IN  Unmet(bucket, BucketOids(bucket))
             \o removeUnmetRelationships(graphSpec, Tail(order))

\* the submitted dropSpecs as removeUnmetRelationships leaves them (they are
\* changed in place, so the graph sees the change)
PrunedSpec(graphSpec) ==
    [i \in 1..Len(graphSpec) |->
        Pruned(graphSpec[i], BucketOids(Bucket(graphSpec, graphSpec[i].node)))]

\* sanitize_relations looks up graph[rel.lhs] and graph[rel.rhs]: KeyError
\* when one is no key of the graph
SanitizeFails(rels, g) ==
    \E i \in 1..Len(rels) : rels[i].lhs \notin DOMAIN g \/ rels[i].rhs \notin DOMAIN g

sanitize_relations(rels, g) ==
    [i \in 1..Len(rels) |->
        DROPRel(uid_for_drop(g[rels[i].lhs]), rels[i].rel, uid_for_drop(g[rels[i].rhs]))]

NoRels == <<>>

\* drop_rels[a][b] of the nested defaultdict
RelsAt(m, a, b) ==
    IF a \in DOMAIN m /\ b \in DOMAIN m[a] THEN m[a][b] ELSE <<>>

\* drop_rels[a][b].append(rel)
AppendRel(m, a, b, rel) ==
    LET inner == IF a \in DOMAIN m THEN m[a] ELSE NoRels
    IN  (a :> ((b :> Append(RelsAt(m, a, b), rel)) @@ inner)) @@ m

\* variant: the relationship is stored under its left-hand node only
StoreRelOneWay(m, rel, g) ==
    AppendRel(m, g[rel.lhs].node, g[rel.rhs].node, rel)

\* the two appends addGraphSpec makes for one relationship
StoreRel(m, rel, g) ==
    LET rhn == g[rel.rhs].node
        lhn == g[rel.lhs].node
    IN  AppendRel(AppendRel(m, lhn, rhn, rel), rhn, lhn, rel)

RECURSIVE BuildDropRels(_, _, _)
BuildDropRels(m, rels, g) ==
    IF rels = <<>> THEN m
    ELSE BuildDropRels(StoreRel(m, Head(rels), g), Tail(rels), g)

\* perPartition.items(), or the host list when that is empty
\* (iterable = iterable or self._dmHosts)
BucketItems(graphSpec, order, hosts) ==
    IF order = <<>> THEN HostItems(hosts)
    ELSE [i \in 1..Len(order) |->
            [host |-> order[i], pair |-> TRUE,
             arg |-> [specs |-> Bucket(PrunedSpec(graphSpec), order[i])]]]

\* variant: each bucket is sent to its host as soon as its dropSpecs are taken
SentBeforeRejectTaken(graphSpec, hosts) ==
    LET taken == Taken(graphSpec, hosts)
        order == CHOOSE o \in Orders(Partitions(taken)) : TRUE
    IN  [i \in 1..Len(order) |->
            [host |-> order[i], pair |-> TRUE, arg |-> [specs |-> Bucket(taken, order[i])]]]

\* the items handed to the pool before InvalidGraphException is raised: none,
\* replicate is only reached after the loop over the dropSpecs
SentBeforeReject(graphSpec, hosts) == <<>>

\* the graph when the loop over the dropSpecs ends
GraphAfterLoop(g, graphSpec, hosts) == InsertAll(g, Taken(graphSpec, hosts))

\* addGraphSpec up to the blocking map of replicate: partition, record the
\* inter-partition relationships, hand the buckets to the pool
AddGraphSpec(sid, graphSpec) ==
    /\ Accept
    /\ log' = {}
    /\ destroyed' = destroyed \ {sid}
    /\ IF FirstInvalid(graphSpec, dmHosts) # 0
       THEN /\ cur' = Call("addGraphSpec", sid, graphSpec, <<>>, <<>>)
            /\ graph' = GraphAfterLoop(graph, graphSpec, dmHosts)
            /\ Finish(Raised("InvalidGraphException"))
            /\ taskqueue' = taskqueue
                  \o Chunks(FreshCall, "_do_in_host", "addGraphSpec",
                            SentBeforeReject(graphSpec, dmHosts))
            /\ UNCHANGED drop_rels
       ELSE \E order \in Orders(Partitions(graphSpec)) :
            LET g == InsertAll(graph, PrunedSpec(graphSpec))
                inter == removeUnmetRelationships(graphSpec, order)
            IN  /\ cur' = Call("addGraphSpec", sid, PrunedSpec(graphSpec), <<>>, inter)
                /\ graph' = g
                /\ IF SanitizeFails(inter, g)
                   THEN /\ Finish(Raised("KeyError"))
                        /\ UNCHANGED <<drop_rels, taskqueue>>
                   ELSE /\ drop_rels' =
                              (sid :> BuildDropRels(NoRels, sanitize_relations(inter, g), g))
                              @@ drop_rels
                        /\ MapAsync(FreshCall, "_do_in_host", "addGraphSpec",
                                    BucketItems(graphSpec, order, dmHosts))
                        /\ pc' = "addGraphSpec"
                        /\ UNCHANGED result
    /\ UNCHANGED <<ensuring, probe>>
    /\ UNCHANGED <<collect, dmChecker, tpState>>
    /\ UNCHANGED <<dmHosts, nThreads, sessionIds>>

\* replicate returns or raises
AddGraphSpecEnd ==
    /\ pc = "addGraphSpec"
    /\ MapReady(mapres)
    /\ Finish(ReplicateOutcome(mapres, thrExs,
                               "appending graphSpec to individual DMs", cur.sid))
    /\ UNCHANGED destroyed
    /\ UNCHANGED <<ensuring, probe>>
    /\ UNCHANGED <<collect, dmChecker, tpState>>
    /\ UNCHANGED <<dmHosts, nThreads, sessionIds, graph, drop_rels, taskqueue, cur, log>>

----------------------------------------------------------------------------
(* deploySession *)

\* the completedDrops clients pass: none, drops of the graph, an unknown uid
CompletedDrops == {<<>>, <<"A">>, <<"A", "B">>, <<"A", "uX">>}

\* the items() of a dictionary, in the order the dictionary gives
PairItems(order, args) ==
    [i \in 1..Len(order) |-> [host |-> order[i], pair |-> TRUE, arg |-> args[order[i]]]]

\* variant: every node of a completed drop is given all the uids
group_by_node_all(uids, g) ==
    [n \in {g[uids[i]].node : i \in 1..Len(uids)} |-> uids]

\* group_by_node: the uids of each node, in the order given
group_by_node(uids, g) ==
    [n \in {g[uids[i]].node : i \in 1..Len(uids)} |->
        SelectSeq(uids, LAMBDA u : g[u].node = n)]

\* variant: only the first of the completed drops is looked up
NotFoundFirst(uids, g) == {uids[1]} \ DOMAIN g

\* not_found = set(completedDrops) - set(self._graph)
NotFound(uids, g) == Range(uids) \ DOMAIN g

\* DaliugeException("UIDs for completed drops not found: %r", not_found)
UidsNotFound ==
    [kind |-> "DaliugeException", action |-> "UIDs for completed drops not found",
     sid |-> Absent, hosts |-> {}]

\* DaliugeException(msg, thrExs) of the subscription and trigger phases
DaliugeException(exs) ==
    [kind |-> "DaliugeException", action |-> Absent, sid |-> Absent,
     hosts |-> DOMAIN exs]

\* variant: the subscription fan-out is not waited for (map_async)
SubscribePhaseOverAtOnce == TRUE

\* self._tp.map of the subscription phase has returned
SubscribePhaseOver == MapReady(mapres)

\* deploySession up to its first blocking map: the subscription fan-out when
\* the session has inter-partition relationships, else the deploy fan-out
DeploySession(sid, completedDrops) ==
    /\ Accept
    /\ cur' = Call("deploySession", sid, <<>>, completedDrops, <<>>)
    /\ log' = {}
    /\ IF sid \notin DOMAIN drop_rels
       THEN /\ Finish(Raised("KeyError"))
            /\ UNCHANGED taskqueue
       ELSE IF DOMAIN drop_rels[sid] # {}
       THEN \E order \in Orders(DOMAIN drop_rels[sid]) :
            /\ MapAsync(FreshCall, "_add_node_subscriptions_wrapper",
                        "add_node_subscriptions",
                        PairItems(order, [h \in DOMAIN drop_rels[sid] |->
                                             [rels |-> drop_rels[sid][h]]]))
            /\ pc' = "deploy_subscribe"
            /\ UNCHANGED result
       ELSE /\ MapAsync(FreshCall, "_do_in_host", "deploySession", HostItems(dmHosts))
            /\ pc' = "deploy_replicate"
            /\ UNCHANGED result
    /\ UNCHANGED destroyed
    /\ UNCHANGED <<ensuring, probe>>
    /\ UNCHANGED <<collect, dmChecker, tpState>>
    /\ UNCHANGED <<dmHosts, nThreads, sessionIds, graph, drop_rels>>

\* the subscription fan-out is over: raise when a node failed, else replicate
\* dm.deploySession
DeploySubscribed ==
    /\ pc = "deploy_subscribe"
    /\ SubscribePhaseOver
    /\ IF DOMAIN thrExs # {}
       THEN /\ Finish(DaliugeException(thrExs))
            /\ UNCHANGED taskqueue
       ELSE /\ MapAsync(cur.call, "_do_in_host", "deploySession", HostItems(dmHosts))
            /\ pc' = "deploy_replicate"
            /\ UNCHANGED result
    /\ UNCHANGED destroyed
    /\ UNCHANGED <<ensuring, probe>>
    /\ UNCHANGED <<collect, dmChecker, tpState>>
    /\ UNCHANGED <<dmHosts, nThreads, sessionIds, graph, drop_rels, cur, log>>

\* replicate is over: raise what it raised, else check and group the completed
\* drops and trigger them on their nodes
DeployReplicated ==
    /\ pc = "deploy_replicate"
    /\ MapReady(mapres)
    /\ LET out == ReplicateOutcome(mapres, thrExs, "deploying session", cur.sid)
       IN  IF out.kind # "ok"
           THEN Finish(out) /\ UNCHANGED taskqueue
           ELSE IF cur.completedDrops = <<>>
           THEN Finish(Returned) /\ UNCHANGED taskqueue
           ELSE IF NotFound(cur.completedDrops, graph) # {}
           THEN Finish(UidsNotFound) /\ UNCHANGED taskqueue
           ELSE IF \E i \in 1..Len(cur.completedDrops) : cur.completedDrops[i] \notin DOMAIN graph
           THEN Finish(Raised("KeyError")) /\ UNCHANGED taskqueue
           ELSE \E order \in Orders(DOMAIN group_by_node(cur.completedDrops, graph)) :
                /\ MapAsync(cur.call, "_triggerDrops", "trigger_drops",
                            PairItems(order, [h \in DOMAIN group_by_node(cur.completedDrops, graph) |->
                                                 [uids |-> group_by_node(cur.completedDrops, graph)[h]]]))
                /\ pc' = "deploy_trigger"
                /\ UNCHANGED result
    /\ UNCHANGED destroyed
    /\ UNCHANGED <<ensuring, probe>>
    /\ UNCHANGED <<collect, dmChecker, tpState>>
    /\ UNCHANGED <<dmHosts, nThreads, sessionIds, graph, drop_rels, cur, log>>

\* the trigger fan-out is over
DeployTriggered ==
    /\ pc = "deploy_trigger"
    /\ MapReady(mapres)
    /\ Finish(IF DOMAIN thrExs # {} THEN DaliugeException(thrExs) ELSE Returned)
    /\ UNCHANGED destroyed
    /\ UNCHANGED <<ensuring, probe>>
    /\ UNCHANGED <<collect, dmChecker, tpState>>
    /\ UNCHANGED <<dmHosts, nThreads, sessionIds, graph, drop_rels, taskqueue, cur, log>>

----------------------------------------------------------------------------
(* The nodes of a DataIslandManager *)

\* self._nodes = dmHosts: at the Island tier self._nodes and self._dmHosts are
\* one list object
nodes == dmHosts

\* DataIslandManager.add_node: CompositeManager.add_node appends the node to
\* self._nodes, then the node is appended to self._dmHosts
AddNode(node) ==
    /\ pc = "idle"
    /\ Len(dmHosts) + 2 <= MaxHosts
    /\ LET afterNodes == Append(nodes, node)
       IN  dmHosts' = Append(afterNodes, node)
    /\ UNCHANGED destroyed
    /\ UNCHANGED <<ensuring, probe>>
    /\ UNCHANGED <<nThreads, sessionIds, graph, drop_rels, taskqueue, mapres, thrExs,
                   pc, cur, result, log, collect, dmChecker, tpState>>

----------------------------------------------------------------------------
(* The DMChecker thread and shutdown *)

\* _checkDM, one turn of 'for host in self._dmHosts': leave the loop when the
\* event is set or the hosts are through, else ensureDM(host), whose failure is
\* logged (warned: the hosts the sweep has logged a warning for) and dropped
CheckDMHost ==
    /\ dmChecker.at = "hosts"
    /\ IF dmChecker.evt \/ dmChecker.i > Len(dmHosts)
       THEN dmChecker' = [dmChecker EXCEPT !.at = "wait"]
       ELSE \E open1 \in BOOLEAN, status \in {0, 1}, open2 \in BOOLEAN :
                dmChecker' = [dmChecker EXCEPT
                                !.i = @ + 1,
                                !.warned = IF ensureDM(open1, status, open2) = "ok"
                                           THEN @ ELSE @ \cup {dmHosts[dmChecker.i]}]
    /\ UNCHANGED destroyed
    /\ UNCHANGED <<ensuring, probe>>
    /\ UNCHANGED <<dmHosts, nThreads, sessionIds, graph, drop_rels, taskqueue, mapres,
                   thrExs, pc, cur, result, log, collect, tpState>>

\* _checkDM, 'if self._dmCheckerEvt.wait(60): break': the thread ends when the
\* event is set, else it goes through the hosts again
CheckDMWait ==
    /\ dmChecker.at = "wait"
    /\ dmChecker' = IF dmChecker.evt THEN [dmChecker EXCEPT !.at = "exited"]
                    ELSE [dmChecker EXCEPT !.at = "hosts", !.i = 1, !.warned = {}]
    /\ UNCHANGED destroyed
    /\ UNCHANGED <<ensuring, probe>>
    /\ UNCHANGED <<dmHosts, nThreads, sessionIds, graph, drop_rels, taskqueue, mapres,
                   thrExs, pc, cur, result, log, collect, tpState>>

\* variant: the DMChecker thread is not joined
CheckerJoinedAtOnce == TRUE

\* self._dmCheckerThread.join() has returned
CheckerJoined == dmChecker.at = "exited"

\* self._tp.join() has returned: the workers leave when the tasks queued
\* before the close are done
PoolJoined == taskqueue = <<>>

\* shutdown, stopDMChecker: set the event and join the thread, unless the
\* event was set before
Shutdown ==
    /\ pc = "idle"
    /\ cur' = Call("shutdown", Absent, <<>>, <<>>, <<>>)
    /\ log' = {}
    /\ dmChecker' = [dmChecker EXCEPT !.evt = TRUE]
    /\ pc' = IF dmChecker.evt THEN "shutdown_close" ELSE "shutdown_join"
    /\ UNCHANGED destroyed
    /\ UNCHANGED <<ensuring, probe>>
    /\ UNCHANGED <<dmHosts, nThreads, sessionIds, graph, drop_rels, taskqueue, mapres,
                   thrExs, result, collect, tpState>>

\* shutdown, the join of stopDMChecker returns
ShutdownJoined ==
    /\ pc = "shutdown_join"
    /\ CheckerJoined
    /\ pc' = "shutdown_close"
    /\ UNCHANGED destroyed
    /\ UNCHANGED <<ensuring, probe>>
    /\ UNCHANGED <<dmHosts, nThreads, sessionIds, graph, drop_rels, taskqueue, mapres,
                   thrExs, cur, result, log, collect, dmChecker, tpState>>

\* shutdown, self._tp.close()
ShutdownClose ==
    /\ pc = "shutdown_close"
    /\ tpState' = "CLOSE"
    /\ pc' = "shutdown_tp"
    /\ UNCHANGED destroyed
    /\ UNCHANGED <<ensuring, probe>>
    /\ UNCHANGED <<dmHosts, nThreads, sessionIds, graph, drop_rels, taskqueue, mapres,
                   thrExs, cur, result, log, collect, dmChecker>>

\* shutdown, self._tp.join() returns and with it shutdown
ShutdownEnd ==
    /\ pc = "shutdown_tp"
    /\ PoolJoined
    /\ Finish(Returned)
    /\ UNCHANGED destroyed
    /\ UNCHANGED <<ensuring, probe>>
    /\ UNCHANGED <<dmHosts, nThreads, sessionIds, graph, drop_rels, taskqueue, cur,
                   log, collect, dmChecker, tpState>>

----------------------------------------------------------------------------
(* getGraph *)

\* set([z for x in self._drop_rels[sessionId].values() for y in x.values() for z in y])
AllRels(m) == UNION {UNION {Range(m[a][b]) : b \in DOMAIN m[a]} : a \in DOMAIN m}

\* variant: the relationships are taken from the lists as they are stored
RelOrdersAsStored(m) == {o \o o : o \in Orders(AllRels(m))}

\* the orders in which 'for rel in rels' may go through the set
RelOrders(m) == Orders(AllRels(m))

\* graph_loader.addLink(rel.rel, allGraphs[rel.rhs], rel.lhs): the drop rel.lhs
\* is linked to the dropSpec
addLink(dropSpec, lhs) == [dropSpec EXCEPT !.links = Append(@, lhs)]

RECURSIVE AddLinks(_, _)
\* the loop over rels of getGraph
AddLinks(allGraphs, rels) ==
    IF rels = <<>> THEN allGraphs
    ELSE AddLinks([allGraphs EXCEPT ![Head(rels).rhs] = addLink(@, Head(rels).lhs)],
                  Tail(rels))

\* getGraph up to the blocking map of replicate
GetGraph(sid) ==
    /\ Accept
    /\ cur' = Call("getGraph", sid, <<>>, <<>>, <<>>)
    /\ log' = {}
    /\ collect' = NoGraphs
    /\ MapAsync(FreshCall, "_do_in_host", "getGraph", HostItems(dmHosts))
    /\ pc' = "getGraph"
    /\ UNCHANGED destroyed
    /\ UNCHANGED <<ensuring, probe>>
    /\ UNCHANGED <<dmHosts, nThreads, sessionIds, graph, drop_rels, result,
                   dmChecker, tpState>>

\* replicate is over: raise what it raised, else attach the recorded
\* relationships to the collected graphs and return them
GetGraphEnd ==
    /\ pc = "getGraph"
    /\ MapReady(mapres)
    /\ LET out == ReplicateOutcome(mapres, thrExs, "getting the graph", cur.sid)
       IN  IF out.kind # "ok"
           THEN Finish(out) /\ UNCHANGED collect
           ELSE IF cur.sid \notin DOMAIN drop_rels
           THEN Finish(Raised("KeyError")) /\ UNCHANGED collect
           ELSE IF \E rel \in AllRels(drop_rels[cur.sid]) : rel.rhs \notin DOMAIN collect
           THEN Finish(Raised("KeyError")) /\ UNCHANGED collect
           ELSE \E rels \in RelOrders(drop_rels[cur.sid]) :
                /\ collect' = AddLinks(collect, rels)
                /\ Finish(Returned)
    /\ UNCHANGED destroyed
    /\ UNCHANGED <<ensuring, probe>>
    /\ UNCHANGED <<dmHosts, nThreads, sessionIds, graph, drop_rels, taskqueue, cur,
                   log, dmChecker, tpState>>

----------------------------------------------------------------------------
(* The worker threads *)

\* host, graphSpec = host_and_graphspec: _addGraphSpec unpacks a pair, or a
\* host name of two characters into its characters
Unpacks(f, item) == f = "addGraphSpec" => (item.pair \/ Len(item.host) = 2)

\* what f hands to the sub-manager: the second element of the pair, or the
\* second character of the host name
Unpacked(item) == IF item.pair THEN item.arg ELSE [char |-> TRUE]

\* what a sub-manager may answer to f: to getGraph any part of the graph it
\* was given, to the other calls nothing
Answers(f, g) ==
    IF f = "getGraph" THEN {[k \in K |-> g[k]] : K \in SUBSET DOMAIN g}
    ELSE {NoGraphs}

\* _do_in_host on the next item of an in-flight chunk, once ensureDM has
\* ended with ens: the remote call; an exception is stored in the dictionary
\* and re-raised, which ends the chunk (mapstar stops at the first exception)
DoInHostCall(k, ens) ==
    /\ k \in InFlight
    /\ taskqueue[k].wrapper = "_do_in_host"
    /\ \E callOk \in BOOLEAN, res \in Answers(taskqueue[k].f, graph) :
         LET ch == taskqueue[k]
             host == Head(ch.items).host
             unpacks == Unpacks(ch.f, Head(ch.items))
             failed == ens # "ok" \/ ~unpacks \/ ~callOk
             exc == [type |-> IF ens # "ok" THEN ens
                              ELSE IF ~unpacks THEN "ValueError" ELSE "RemoteError",
                     host |-> host]
             events == EnsureEvents(ch.call, host, ens)
                       \cup (IF ens = "ok" /\ ~unpacks
                             THEN {Event(ch.call, "unpack", host, FALSE)} ELSE {})
                       \cup (IF ens = "ok" /\ unpacks
                             THEN {Delivery(ch.call, ch.f, host, callOk, "dmPort",
                                            IF ch.f = "addGraphSpec"
                                            THEN Unpacked(Head(ch.items))
                                            ELSE IF ch.f = "getGraph" /\ callOk
                                            THEN [graph |-> res] ELSE NoArg)}
                             ELSE {})
             rest == Tail(ch.items)
             ends == failed \/ rest = <<>>
             q == IF ends THEN RemoveAt(taskqueue, k)
                  ELSE [taskqueue EXCEPT ![k].items = rest]
         IN  /\ taskqueue' = q
             /\ mapres' = IF ends THEN SetResult(mapres, ch.call, ~failed, exc)
                          ELSE mapres
             /\ thrExs' = IF failed /\ pc \notin {"idle", "done"} /\ ch.call = cur.call
                          THEN (host :> exc.type) @@ thrExs ELSE thrExs
             /\ log' = Live(log \cup events, cur.call)
             /\ collect' = IF ~failed /\ ch.f = "getGraph"
                               /\ pc \notin {"idle", "done"} /\ ch.call = cur.call
                            THEN res @@ collect ELSE collect
    /\ UNCHANGED destroyed
    /\ UNCHANGED <<probe, dmChecker, tpState>>
    /\ UNCHANGED <<dmHosts, nThreads, sessionIds, graph, drop_rels, pc, cur, result>>

\* _do_in_host on the next item of an in-flight chunk, ensureDM taken as one
\* step
DoInHost(k) ==
    /\ \E open1 \in BOOLEAN, status \in {0, 1}, open2 \in BOOLEAN :
            DoInHostCall(k, ensureDM(open1, status, open2))
    /\ UNCHANGED ensuring

\* a wrapper that talks to a leaf node at the node port without ensureDM: the
\* exception of the remote call is stored in the dictionary and not re-raised
NodeWrapper(k, wrapper) ==
    /\ k \in InFlight
    /\ taskqueue[k].wrapper = wrapper
    /\ \E callOk \in BOOLEAN :
         LET ch == taskqueue[k]
             host == Head(ch.items).host
             rest == Tail(ch.items)
             q == IF rest = <<>> THEN RemoveAt(taskqueue, k)
                  ELSE [taskqueue EXCEPT ![k].items = rest]
         IN  /\ taskqueue' = q
             /\ mapres' = IF rest = <<>> THEN SetResult(mapres, ch.call, TRUE, NoExc)
                          ELSE mapres
             /\ thrExs' = IF ~callOk /\ pc \notin {"idle", "done"} /\ ch.call = cur.call
                          THEN (host :> "RemoteError") @@ thrExs ELSE thrExs
             /\ log' = Live(log \cup {Delivery(ch.call, ch.f, host, callOk,
                                                "NODE_DEFAULT_REST_PORT",
                                                Head(ch.items).arg)}, cur.call)
    /\ UNCHANGED destroyed
    /\ UNCHANGED <<ensuring, probe>>
    /\ UNCHANGED <<collect, dmChecker, tpState>>
    /\ UNCHANGED <<dmHosts, nThreads, sessionIds, graph, drop_rels, pc, cur, result>>

\* _add_node_subscriptions_wrapper on the next item of an in-flight chunk
AddNodeSubscriptionsWrapper(k) == NodeWrapper(k, "_add_node_subscriptions_wrapper")

\* _triggerDrops on the next item of an in-flight chunk
TriggerDrops(k) == NodeWrapper(k, "_triggerDrops")

----------------------------------------------------------------------------
(* portIsOpen: utils.writeToRemotePort with data=None *)

\* the clock of time.time(), in steps of 100 ms (the sleep between two
\* attempts): the latest time explored
MaxClock == 4
\* the longest finite timeout explored, in steps of the clock
MaxTimeout == 2

\* timeout=None
NoTimeout == [given |-> FALSE, secs |-> 0]
\* a timeout of secs steps; 0 is the default of portIsOpen
Timeout(secs) == [given |-> TRUE, secs |-> secs]
Timeouts == {NoTimeout} \cup {Timeout(t) : t \in 0..MaxTimeout}

\* what s.connect can do: return, or raise socket.timeout or a socket.error
\* with one of these errnos
Outcomes == {"connected", "timeout", "ECONNRESET", "ECONNREFUSED", "EHOSTUNREACH"}

\* no call in progress at time 0
NoProbe == [at |-> "idle", timeout |-> NoTimeout, start |-> 0, now |-> 0,
            thisTimeout |-> NoTimeout, astart |-> 0, attempts |-> 0,
            last |-> "none", result |-> FALSE]

\* 'if timeout is not None and timeout != 0'
Bounded(timeout) == timeout.given /\ timeout.secs # 0

\* thisTimeout = timeout - (time.time() - start), or None
ThisTimeout(timeout, elapsed) ==
    IF Bounded(timeout) THEN Timeout(timeout.secs - elapsed) ELSE NoTimeout

\* 'if thisTimeout <= 0: return False'
Expired(timeout, elapsed) == Bounded(timeout) /\ timeout.secs - elapsed <= 0

\* variant: a refused connection is retried whatever time has gone by
GivesUpNever(timeout, elapsed) == FALSE

\* after ECONNREFUSED: 'if timeout is not None: if time.time() - start > timeout:
\* return False'
GivesUp(timeout, elapsed) == timeout.given /\ elapsed > timeout.secs

\* where the call goes after s.connect: it returns True, returns False, sleeps
\* before the next attempt, or raises
AfterConnect(outcome, timeout, elapsed) ==
    CASE outcome = "connected" -> "returned"
      [] outcome = "timeout" -> "returned"
      [] outcome = "ECONNRESET" -> "returned"
      [] outcome = "ECONNREFUSED" ->
            IF GivesUp(timeout, elapsed) THEN "returned" ELSE "sleep"
      [] OTHER -> "raised"

\* portIsOpen(host, port, timeout) is called: start = time.time()
PortIsOpen(timeout) ==
    /\ probe.at = "idle"
    /\ probe.now + timeout.secs + 1 <= MaxClock
    /\ probe' = [NoProbe EXCEPT !.at = "top", !.timeout = timeout,
                                !.start = probe.now, !.now = probe.now]
    /\ UNCHANGED destroyed
    /\ UNCHANGED <<dmHosts, nThreads, sessionIds, graph, drop_rels, taskqueue, mapres,
                   thrExs, pc, cur, result, log, collect, dmChecker, tpState,
                   ensuring>>

\* time goes by while the call computes or waits for the connection
Pass ==
    /\ probe.at \in {"top", "connect"}
    /\ probe.now < MaxClock
    /\ probe' = [probe EXCEPT !.now = @ + 1]
    /\ UNCHANGED destroyed
    /\ UNCHANGED <<dmHosts, nThreads, sessionIds, graph, drop_rels, taskqueue, mapres,
                   thrExs, pc, cur, result, log, collect, dmChecker, tpState,
                   ensuring>>

\* writeToRemotePort, the top of the loop: return False when the timeout has
\* gone by, else a socket with thisTimeout starts to connect
WriteToRemotePort ==
    /\ probe.at = "top"
    /\ LET elapsed == probe.now - probe.start
       IN  probe' = IF Expired(probe.timeout, elapsed)
                    THEN [probe EXCEPT !.at = "returned", !.result = FALSE]
                    ELSE [probe EXCEPT !.at = "connect",
                                       !.thisTimeout = ThisTimeout(probe.timeout, elapsed),
                                       !.astart = probe.now,
                                       !.attempts = @ + 1,
                                       !.last = "none"]
    /\ UNCHANGED destroyed
    /\ UNCHANGED <<dmHosts, nThreads, sessionIds, graph, drop_rels, taskqueue, mapres,
                   thrExs, pc, cur, result, log, collect, dmChecker, tpState,
                   ensuring>>

\* s.connect returns or raises; socket.timeout is raised by a socket with a
\* timeout, once the timeout has gone by
Connect(outcome) ==
    /\ probe.at = "connect"
    /\ outcome = "timeout" =>
            /\ probe.thisTimeout.given
            /\ probe.now - probe.astart >= probe.thisTimeout.secs
    /\ probe' = [probe EXCEPT !.last = outcome,
                              !.at = AfterConnect(outcome, probe.timeout,
                                                  probe.now - probe.start),
                              !.result = (outcome = "connected")]
    /\ UNCHANGED destroyed
    /\ UNCHANGED <<dmHosts, nThreads, sessionIds, graph, drop_rels, taskqueue, mapres,
                   thrExs, pc, cur, result, log, collect, dmChecker, tpState,
                   ensuring>>

\* time.sleep(0.1); continue
Sleep ==
    /\ probe.at = "sleep"
    /\ probe.now < MaxClock
    /\ probe' = [probe EXCEPT !.now = @ + 1, !.at = "top"]
    /\ UNCHANGED destroyed
    /\ UNCHANGED <<dmHosts, nThreads, sessionIds, graph, drop_rels, taskqueue, mapres,
                   thrExs, pc, cur, result, log, collect, dmChecker, tpState,
                   ensuring>>

\* the caller has the answer of portIsOpen (or its exception)
PortIsOpenEnd ==
    /\ probe.at \in {"returned", "raised"}
    /\ probe' = [NoProbe EXCEPT !.now = probe.now]
    /\ UNCHANGED destroyed
    /\ UNCHANGED <<dmHosts, nThreads, sessionIds, graph, drop_rels, taskqueue, mapres,
                   thrExs, pc, cur, result, log, collect, dmChecker, tpState,
                   ensuring>>

----------------------------------------------------------------------------
(* ensureDM step by step: the probes and the remote start take time, and the *)
(* DMChecker thread and the workers run it side by side                      *)

\* the frame of a call of ensureDM(host): who runs it (the DMChecker thread, or
\* the worker on a work item of fan-out call), where it is, what the probes
\* gave (portIsOpen returns True or False, "open" or "closed", or re-raises a
\* socket.error, "error"), how often startDM was run and the exit status of the remote command
Frame(who, call, host) ==
    [who |-> who, call |-> call, host |-> host, at |-> "probe1",
     first |-> "none", second |-> "none", boots |-> 0, status |-> 0]

\* variant: the DM is started whatever the first probe gave
AfterProbeStarts(res) == IF res = "error" THEN "raised" ELSE "startDM"

\* 'if portIsOpen(...): return', else on to startDM
AfterProbe(res) ==
    CASE res = "open" -> "returned"
      [] res = "closed" -> "startDM"
      [] OTHER -> "raised"

\* how a call of ensureDM that is over ended
Ensured(fr) ==
    IF fr.at = "returned" THEN "ok"
    ELSE IF "error" \in {fr.first, fr.second} THEN "socket.error"
    ELSE "DaliugeException"

\* ensureDM, the first portIsOpen answers
EnsureProbe(fr) ==
    /\ fr \in ensuring
    /\ fr.at = "probe1"
    /\ \E res \in {"open", "closed", "error"} :
            ensuring' = (ensuring \ {fr})
                        \cup {[fr EXCEPT !.first = res, !.at = AfterProbe(res)]}
    /\ UNCHANGED destroyed
    /\ UNCHANGED <<dmHosts, nThreads, sessionIds, graph, drop_rels, taskqueue, mapres,
                   thrExs, pc, cur, result, log, collect, dmChecker, tpState, probe>>

\* ensureDM, startDM(host): the command is sent to the host and runs there
EnsureStartDM(fr) ==
    /\ fr \in ensuring
    /\ fr.at = "startDM"
    /\ ensuring' = (ensuring \ {fr})
                    \cup {[fr EXCEPT !.boots = @ + 1, !.at = "bootstrap"]}
    /\ UNCHANGED destroyed
    /\ UNCHANGED <<dmHosts, nThreads, sessionIds, graph, drop_rels, taskqueue, mapres,
                   thrExs, pc, cur, result, log, collect, dmChecker, tpState, probe>>

\* ensureDM, the remote command of startDM has exited with status: 'if status
\* != 0: raise DaliugeException'
EnsureStarted(fr) ==
    /\ fr \in ensuring
    /\ fr.at = "bootstrap"
    /\ \E status \in {0, 1} :
            ensuring' = (ensuring \ {fr})
                        \cup {[fr EXCEPT !.status = status, !.at = IF status # 0 THEN "raised" ELSE "probe2"]}
    /\ UNCHANGED destroyed
    /\ UNCHANGED <<dmHosts, nThreads, sessionIds, graph, drop_rels, taskqueue, mapres,
                   thrExs, pc, cur, result, log, collect, dmChecker, tpState, probe>>

\* ensureDM, the second portIsOpen answers: 'if not portIsOpen(...): raise
\* DaliugeException'
EnsureReprobe(fr) ==
    /\ fr \in ensuring
    /\ fr.at = "probe2"
    /\ \E res \in {"open", "closed", "error"} :
            ensuring' = (ensuring \ {fr})
                        \cup {[fr EXCEPT !.second = res, !.at = IF res = "open" THEN "returned" ELSE "raised"]}
    /\ UNCHANGED destroyed
    /\ UNCHANGED <<dmHosts, nThreads, sessionIds, graph, drop_rels, taskqueue, mapres,
                   thrExs, pc, cur, result, log, collect, dmChecker, tpState, probe>>

\* a step of the call fr of ensureDM
EnsureStep(fr) ==
    EnsureProbe(fr) \/ EnsureStartDM(fr) \/ EnsureStarted(fr) \/ EnsureReprobe(fr)

\* the call of ensureDM the DMChecker thread is in
CheckerFrames == {fr \in ensuring : fr.who = "DMChecker"}

\* _checkDM, one turn of 'for host in self._dmHosts', up to the call of
\* ensureDM(host): the loop is left when the event is set or the hosts are
\* through
CheckDMEnsure ==
    /\ dmChecker.at = "hosts"
    /\ CheckerFrames = {}
    /\ IF dmChecker.evt \/ dmChecker.i > Len(dmHosts)
       THEN /\ dmChecker' = [dmChecker EXCEPT !.at = "wait"]
            /\ UNCHANGED ensuring
       ELSE /\ ensuring' = ensuring \cup {Frame("DMChecker", 0, dmHosts[dmChecker.i])}
            /\ UNCHANGED dmChecker
    /\ UNCHANGED destroyed
    /\ UNCHANGED <<dmHosts, nThreads, sessionIds, graph, drop_rels, taskqueue, mapres,
                   thrExs, pc, cur, result, log, collect, tpState, probe>>

\* variant: the exception of ensureDM ends the DMChecker thread
CheckDMAfterRaising(chk, fr) ==
    IF fr.at = "raised" THEN [chk EXCEPT !.at = "exited"]
    ELSE [chk EXCEPT !.i = @ + 1]

\* 'except: logger.warning(...)': whether ensureDM returned or raised, the
\* loop goes on with the next host
CheckDMAfter(chk, fr) ==
    [chk EXCEPT !.i = @ + 1,
                !.warned = IF fr.at = "raised" THEN @ \cup {fr.host} ELSE @]

\* _checkDM, ensureDM(host) has returned or raised
CheckDMEnsured ==
    /\ \E fr \in CheckerFrames :
            /\ fr.at \in {"returned", "raised"}
            /\ ensuring' = ensuring \ {fr}
            /\ dmChecker' = CheckDMAfter(dmChecker, fr)
    /\ UNCHANGED destroyed
    /\ UNCHANGED <<dmHosts, nThreads, sessionIds, graph, drop_rels, taskqueue, mapres,
                   thrExs, pc, cur, result, log, collect, tpState, probe>>

\* the call of ensureDM of the worker that holds chunk k
WorkerFrames(k) ==
    {fr \in ensuring : /\ fr.who = "worker"
                       /\ fr.call = taskqueue[k].call
                       /\ fr.host = Head(taskqueue[k].items).host}

\* _do_in_host on the next item of an in-flight chunk, up to the call of
\* ensureDM(host)
DoInHostEnsure(k) ==
    /\ k \in InFlight
    /\ taskqueue[k].wrapper = "_do_in_host"
    /\ WorkerFrames(k) = {}
    /\ ensuring' = ensuring \cup {Frame("worker", taskqueue[k].call,
                                         Head(taskqueue[k].items).host)}
    /\ UNCHANGED destroyed
    /\ UNCHANGED <<dmHosts, nThreads, sessionIds, graph, drop_rels, taskqueue, mapres,
                   thrExs, pc, cur, result, log, collect, dmChecker, tpState, probe>>

\* _do_in_host, ensureDM(host) has returned or raised: the remote call, or
\* the exception is stored and re-raised
DoInHostEnsured(k) ==
    /\ k \in InFlight
    /\ \E fr \in WorkerFrames(k) :
            /\ fr.at \in {"returned", "raised"}
            /\ DoInHostCall(k, Ensured(fr))
            /\ ensuring' = ensuring \ {fr}

----------------------------------------------------------------------------

Init ==
    /\ dmHosts \in HostLists
    /\ nThreads = PoolSize(dmHosts)
    /\ sessionIds = <<>>
    /\ graph = <<>>
    /\ drop_rels = <<>>
    /\ taskqueue = <<>>
    /\ mapres = NoResult
    /\ thrExs = NoExs
    /\ pc = "idle"
    /\ cur = NoCall
    /\ result = Returned
    /\ log = {}
    /\ collect = NoGraphs
    /\ dmChecker = [evt |-> FALSE, at |-> "hosts", i |-> 1, warned |-> {}]
    /\ tpState = "RUN"
    /\ ensuring = {}
    /\ probe = NoProbe
    /\ destroyed = {}

Next ==
    \/ \E sid \in Sids : CreateSession(sid)
    \/ CreateSessionEnd
    \/ \E sid \in Sids : DestroySession(sid)
    \/ DestroySessionEnd
    \/ \E sid \in Sids, graphSpec \in GraphSpecs : AddGraphSpec(sid, graphSpec)
    \/ AddGraphSpecEnd
    \/ \E sid \in Sids, completedDrops \in CompletedDrops :
            DeploySession(sid, completedDrops)
    \/ DeploySubscribed
    \/ DeployReplicated
    \/ DeployTriggered
    \/ \E sid \in Sids : GetGraph(sid)
    \/ GetGraphEnd
    \/ \E node \in Hosts : AddNode(node)
    \/ \E timeout \in Timeouts : PortIsOpen(timeout)
    \/ Pass
    \/ WriteToRemotePort
    \/ \E outcome \in Outcomes : Connect(outcome)
    \/ Sleep
    \/ PortIsOpenEnd
    \/ CheckDMHost
    \/ CheckDMWait
    \/ \E fr \in ensuring : EnsureStep(fr)
    \/ CheckDMEnsure
    \/ CheckDMEnsured
    \/ \E k \in 1..MaxPoolThreads : DoInHostEnsure(k)
    \/ \E k \in 1..MaxPoolThreads : DoInHostEnsured(k)
    \/ Shutdown
    \/ ShutdownJoined
    \/ ShutdownClose
    \/ ShutdownEnd
    \/ Respond
    \/ \E k \in 1..MaxPoolThreads : DoInHost(k)
    \/ \E k \in 1..MaxPoolThreads : AddNodeSubscriptionsWrapper(k)
    \/ \E k \in 1..MaxPoolThreads : TriggerDrops(k)

Spec == Init /\ [][Next]_vars

\* sessions: the registry under createSession and destroySession
NextSession ==
    \/ \E sid \in Sids : CreateSession(sid)
    \/ CreateSessionEnd
    \/ \E sid \in Sids : DestroySession(sid)
    \/ DestroySessionEnd
    \/ Respond
    \/ \E k \in 1..MaxPoolThreads : DoInHost(k)

SpecSession == Init /\ [][NextSession]_vars

\* graphs: one session that is given graph after graph
NextGraph ==
    \/ \E graphSpec \in GraphSpecs : AddGraphSpec("s1", graphSpec)
    \/ AddGraphSpecEnd
    \/ Respond
    \/ \E k \in 1..MaxPoolThreads : DoInHost(k)

SpecGraph == Init /\ [][NextGraph]_vars

\* the graphs given to the sessions that are deployed: drop A alone; A and B on
\* two hosts, linked
DeployGraphs ==
    {<<DropSpec("A", Absent, "h1", <<>>)>>,
     <<DropSpec("A", Absent, "h1", <<"B">>), DropSpec("B", Absent, "h2", <<>>)>>}

\* deployment: sessions that are given a graph and deployed
NextDeploy ==
    \/ \E graphSpec \in DeployGraphs : AddGraphSpec("s1", graphSpec)
    \/ AddGraphSpecEnd
    \/ \E sid \in Sids, completedDrops \in CompletedDrops :
            DeploySession(sid, completedDrops)
    \/ DeploySubscribed
    \/ DeployReplicated
    \/ DeployTriggered
    \/ Respond
    \/ \E k \in 1..MaxPoolThreads : DoInHost(k)
    \/ \E k \in 1..MaxPoolThreads : AddNodeSubscriptionsWrapper(k)
    \/ \E k \in 1..MaxPoolThreads : TriggerDrops(k)

SpecDeploy == Init /\ [][NextDeploy]_vars

\* the completedDrops given to the session that is created and deployed
LifeCompleted == {<<>>, <<"A">>}

\* life of one session: it is created, given graphs or not, and deployed
NextLife ==
    \/ CreateSession("s1")
    \/ CreateSessionEnd
    \/ \E graphSpec \in DeployGraphs : AddGraphSpec("s1", graphSpec)
    \/ AddGraphSpecEnd
    \/ \E completedDrops \in LifeCompleted : DeploySession("s1", completedDrops)
    \/ DeploySubscribed
    \/ DeployReplicated
    \/ DeployTriggered
    \/ Respond
    \/ \E k \in 1..MaxPoolThreads : DoInHost(k)
    \/ \E k \in 1..MaxPoolThreads : AddNodeSubscriptionsWrapper(k)
    \/ \E k \in 1..MaxPoolThreads : TriggerDrops(k)

SpecLife == Init /\ [][NextLife]_vars

\* the graph each of two sessions is given: drop A for s1, drop B for s2, both
\* on h1
TwoGraphs ==
    ("s1" :> <<DropSpec("A", Absent, "h1", <<>>)>>)
    @@ ("s2" :> <<DropSpec("B", Absent, "h1", <<>>)>>)

\* two sessions: each is given its graph, and s2 is deployed with its own
\* drop or with the drop of s1 as completed
NextTwo ==
    \/ \E sid \in Sids : AddGraphSpec(sid, TwoGraphs[sid])
    \/ AddGraphSpecEnd
    \/ \E completedDrops \in {<<"B">>, <<"A">>} : DeploySession("s2", completedDrops)
    \/ DeployReplicated
    \/ DeployTriggered
    \/ Respond
    \/ \E k \in 1..MaxPoolThreads : DoInHost(k)
    \/ \E k \in 1..MaxPoolThreads : TriggerDrops(k)

SpecTwo == Init /\ [][NextTwo]_vars

\* a session that lives twice: a client that creates s1 when it is not
\* registered, gives a registered s1 a graph, deploys it without completed
\* drops and destroys it
NextRelife ==
    \/ "s1" \notin Range(sessionIds) /\ CreateSession("s1")
    \/ CreateSessionEnd
    \/ "s1" \in Range(sessionIds) /\ \E graphSpec \in DeployGraphs :
            AddGraphSpec("s1", graphSpec)
    \/ AddGraphSpecEnd
    \/ "s1" \in Range(sessionIds) /\ DeploySession("s1", <<>>)
    \/ DeploySubscribed
    \/ DeployReplicated
    \/ "s1" \in Range(sessionIds) /\ DestroySession("s1")
    \/ DestroySessionEnd
    \/ Respond
    \/ \E k \in 1..MaxPoolThreads : DoInHost(k)
    \/ \E k \in 1..MaxPoolThreads : AddNodeSubscriptionsWrapper(k)

SpecRelife == Init /\ [][NextRelife]_vars

\* queries: a session that is given graphs and asked for its graph
NextQuery ==
    \/ \E graphSpec \in DeployGraphs : AddGraphSpec("s1", graphSpec)
    \/ AddGraphSpecEnd
    \/ \E sid \in Sids : GetGraph(sid)
    \/ GetGraphEnd
    \/ Respond
    \/ \E k \in 1..MaxPoolThreads : DoInHost(k)

SpecQuery == Init /\ [][NextQuery]_vars

\* nodes: an island that is given nodes and creates a session on its hosts
NextNodes ==
    \/ \E node \in Hosts : AddNode(node)
    \/ CreateSession("s1")
    \/ CreateSessionEnd
    \/ Respond
    \/ \E k \in 1..MaxPoolThreads : DoInHost(k)

SpecNodes == Init /\ [][NextNodes]_vars

\* the steps of the DMChecker thread, ensureDM step by step
CheckDMSteps ==
    \/ CheckDMEnsure
    \/ \E fr \in CheckerFrames : EnsureStep(fr)
    \/ CheckDMEnsured
    \/ CheckDMWait

\* the steps of the worker threads, ensureDM step by step
WorkerSteps ==
    \/ \E k \in 1..MaxPoolThreads : DoInHostEnsure(k)
    \/ \E fr \in ensuring \ CheckerFrames : EnsureStep(fr)
    \/ \E k \in 1..MaxPoolThreads : DoInHostEnsured(k)

\* ensuring: a manager that creates sessions while its DMChecker thread and
\* its workers ensure the sub-managers
NextEnsure ==
    \/ CreateSession("s1")
    \/ CreateSessionEnd
    \/ Respond
    \/ CheckDMSteps
    \/ WorkerSteps

SpecEnsure == Init /\ [][NextEnsure]_vars

\* sweeping: a manager whose DMChecker thread sweeps the hosts until the
\* manager is shut down
NextSweep ==
    \/ Shutdown
    \/ ShutdownJoined
    \/ ShutdownClose
    \/ ShutdownEnd
    \/ Respond
    \/ CheckDMSteps

\* the DMChecker thread is scheduled, and the probes and the remote command
\* of ensureDM end (they run with timeouts)
SpecSweep ==
    /\ Init /\ [][NextSweep]_vars
    /\ WF_vars(CheckDMSteps)

\* probes: portIsOpen is called with one timeout after the other while time
\* goes by
NextProbe ==
    \/ \E timeout \in Timeouts : PortIsOpen(timeout)
    \/ Pass
    \/ WriteToRemotePort
    \/ \E outcome \in Outcomes : Connect(outcome)
    \/ Sleep
    \/ PortIsOpenEnd

\* the call goes on: it is scheduled, s.connect returns or raises (the
\* operating system ends a connection attempt), and the sleep ends
SpecProbe ==
    /\ Init /\ [][NextProbe]_vars
    /\ WF_vars(WriteToRemotePort)
    /\ WF_vars(\E outcome \in Outcomes : Connect(outcome))
    /\ WF_vars(Sleep)

\* the steps of the worker threads of the pool
Workers == \E k \in 1..MaxPoolThreads : DoInHost(k)

\* the steps of the DMChecker thread
CheckDM == CheckDMHost \/ CheckDMWait

\* shutdown: a manager that creates sessions, with its DMChecker thread
\* running, and is shut down
NextShutdown ==
    \/ CreateSession("s1")
    \/ CreateSessionEnd
    \/ Shutdown
    \/ ShutdownJoined
    \/ ShutdownClose
    \/ ShutdownEnd
    \/ Respond
    \/ CheckDMHost
    \/ CheckDMWait
    \/ \E k \in 1..MaxPoolThreads : DoInHost(k)

\* the threads are scheduled: the DMChecker thread and the workers keep
\* running (ensureDM and the remote calls return or raise), and the calling
\* thread goes on when what it waits for has happened
SpecShutdown ==
    /\ Init /\ [][NextShutdown]_vars
    /\ WF_vars(CheckDM)
    /\ WF_vars(Workers)
    /\ WF_vars(ShutdownJoined \/ ShutdownClose \/ ShutdownEnd)

----------------------------------------------------------------------------
(* Sessions and the fan-out: C1 - C4 *)

\* the hosts on which the call in progress has run f to a normal return
Succeeded(f) == {e.host : e \in {x \in log : x.call = cur.call /\ x.ev = f /\ x.ok}}
\* the hosts on which the call in progress has failed, in ensureDM or in f
Failed == {e.host : e \in {x \in log : x.call = cur.call /\ ~x.ok}}
\* the hosts for which the call in progress has started its per-host function
Attempted == {e.host : e \in {x \in log : x.call = cur.call /\ x.ev = "ensureDM"}}

\* C1: createSession appends the session id to the registry if and only if
\* dm.createSession succeeded on every host of the host list; when a host
\* fails the call raises and leaves the registry as it was; nothing else that
\* createSession does touches the registry.
C1_CreateSessionAllOrNothing ==
    [][/\ pc' = "createSession" => sessionIds' = sessionIds
       /\ (pc = "createSession" /\ pc' = "done") =>
            LET all == Range(dmHosts) \subseteq Succeeded("createSession")
            IN  /\ (sessionIds' = Append(sessionIds, cur.sid)) <=> all
                /\ all => result'.kind = "ok"
                /\ ~all => result'.kind # "ok" /\ sessionIds' = sessionIds]_vars

\* C1 witness: createSession has raised after it created the session on one
\* host and failed on the other, and the registry does not hold the id
C1_Witness ==
    /\ pc = "done" /\ cur.op = "createSession" /\ result.kind # "ok"
    /\ Succeeded("createSession") # {} /\ Failed # {}
    /\ cur.sid \notin Range(sessionIds)

\* C2 (as claimed): a fan-out that ends with failed hosts raises a
\* SubManagerException carrying the action, the session id and a map whose
\* keys are exactly the hosts that failed.
C2_FanOutRaisesSubManager ==
    [][(pc \in {"createSession", "destroySession"} /\ pc' = "done" /\ Failed # {}) =>
            /\ result'.kind = "SubManagerException"
            /\ result'.action = "creating sessions"
            /\ result'.sid = cur.sid
            /\ result'.hosts = Failed]_vars

\* C3 (as claimed): when the fan-out reports its outcome to the caller, the
\* per-host function has been attempted for every host of the iterable.
C3_EveryHostAttemptedBeforeReport ==
    [][(pc \in {"createSession", "destroySession"} /\ pc' = "done") =>
            Range(dmHosts) \subseteq Attempted]_vars

\* C4 (as claimed): once destroySession(sid) has returned or raised, the
\* registry does not contain sid.
C4_DestroySessionAlwaysRemoves ==
    (pc = "done" /\ cur.op = "destroySession") => cur.sid \notin Range(sessionIds)

----------------------------------------------------------------------------
(* deploySession: C5 *)

\* the hosts that have received f from the call in progress (and answered)
Received(f) == {e.host : e \in {x \in log : x.call = cur.call /\ x.ev = f}}

\* C5: within a deploySession call no direct child receives dm.deploySession
\* before every add_node_subscriptions call of the subscription phase has
\* returned, and no leaf node receives trigger_drops before dm.deploySession
\* has returned on every direct child.
C5_DeployPhasesOrdered ==
    cur.op = "deploySession" =>
        /\ Received("deploySession") # {} =>
              (cur.sid \in DOMAIN drop_rels
               /\ DOMAIN drop_rels[cur.sid] \subseteq Received("add_node_subscriptions"))
        /\ Received("trigger_drops") # {} =>
              Range(dmHosts) \subseteq Succeeded("deploySession")

\* C5 witness: a deploySession call that delivered subscriptions, deployed on
\* both hosts and has triggered drops on a node
C5_Witness ==
    /\ cur.op = "deploySession"
    /\ Received("add_node_subscriptions") = {"h1", "h2"}
    /\ Succeeded("deploySession") = {"h1", "h2"}
    /\ Received("trigger_drops") # {}

----------------------------------------------------------------------------
(* addGraphSpec: C6 - C10 *)

\* the step in which addGraphSpec runs up to its fan-out, or to the exception
\* it raises before it
AddGraphSpecStep == pc = "idle" /\ cur'.op = "addGraphSpec"

\* C6 (as claimed): when addGraphSpec fails with InvalidGraph the session
\* graph is the same after the call as before it, also when valid specs
\* precede the offending one.
C6_InvalidGraphLeavesGraph ==
    [][(AddGraphSpecStep /\ pc' = "done" /\ result'.kind = "InvalidGraphException")
            => graph' = graph]_vars

\* C7: when addGraphSpec fails with InvalidGraph no child is contacted by
\* that call: none of its hosts sees an ensureDM probe, a bootstrap or
\* dm.addGraphSpec, and the call has left nothing in the pool to be sent.
C7_InvalidGraphContactsNoChild ==
    (cur.op = "addGraphSpec" /\ pc = "done" /\ result.kind = "InvalidGraphException") =>
        /\ Live(log, cur.call) = {}
        /\ \A i \in 1..Len(taskqueue) : taskqueue[i].call # cur.call

\* C7 witness: addGraphSpec has raised InvalidGraph for a graph whose first
\* dropSpec belongs to a managed host and whose second one does not
C7_Witness ==
    /\ cur.op = "addGraphSpec" /\ pc = "done" /\ result.kind = "InvalidGraphException"
    /\ Len(cur.graphSpec) = 2
    /\ cur.graphSpec[1].node \in Range(dmHosts)
    /\ cur.graphSpec[2].node \notin Range(dmHosts)

\* the keys of the graph under which a drop with this oid is stored
Holders(g, oid) == {k \in DOMAIN g : g[k].oid = oid}

\* C8 (as claimed): after addGraphSpec every removed edge is stored as a
\* DropRel whose lhs and rhs are the uids of the drops the edge referenced by
\* oid, also for drops whose uid differs from their oid, and the lhs and rhs
\* of every stored DropRel are keys of the session graph.
C8_StoredRelsCarryUids ==
    (cur.op = "addGraphSpec" /\ pc \in {"addGraphSpec", "done"}) =>
        /\ \A i \in 1..Len(cur.unmet) :
              LET e == cur.unmet[i]
              IN  (Cardinality(Holders(graph, e.lhs)) = 1
                   /\ Cardinality(Holders(graph, e.rhs)) = 1) =>
                     LET l == CHOOSE k \in Holders(graph, e.lhs) : TRUE
                         r == CHOOSE k \in Holders(graph, e.rhs) : TRUE
                     IN  /\ cur.sid \in DOMAIN drop_rels
                         /\ DROPRel(l, e.rel, r) \in
                              Range(RelsAt(drop_rels[cur.sid], graph[l].node, graph[r].node))
        /\ cur.sid \in DOMAIN drop_rels =>
              \A a \in DOMAIN drop_rels[cur.sid] : \A b \in DOMAIN drop_rels[cur.sid][a] :
                  \A rel \in Range(drop_rels[cur.sid][a][b]) :
                      rel.lhs \in DOMAIN graph /\ rel.rhs \in DOMAIN graph

\* C9: the inter-partition map stored for a session is symmetric: for all
\* hosts a and b and every rel, rel is in map[a][b] iff it is in map[b][a].
C9_DropRelsSymmetric ==
    \A sid \in DOMAIN drop_rels : \A a, b \in Nodes :
        Range(RelsAt(drop_rels[sid], a, b)) = Range(RelsAt(drop_rels[sid], b, a))

\* C9 witness: a session whose map holds a relationship between h1 and h2
C9_Witness ==
    /\ "s1" \in DOMAIN drop_rels
    /\ RelsAt(drop_rels["s1"], "h1", "h2") # <<>>
    /\ RelsAt(drop_rels["s1"], "h2", "h1") # <<>>

\* the uids of the dropSpecs a call has put in the graph
UidsOf(dropSpecs) == {uid_for_drop(dropSpecs[i]) : i \in 1..Len(dropSpecs)}

\* the last of the dropSpecs with this uid
LastWith(dropSpecs, uid) ==
    dropSpecs[CHOOSE i \in 1..Len(dropSpecs) :
                 /\ uid_for_drop(dropSpecs[i]) = uid
                 /\ \A j \in (i + 1)..Len(dropSpecs) : uid_for_drop(dropSpecs[j]) # uid]

\* C10 (as claimed): after any sequence of addGraphSpec calls every spec that
\* was inserted is what the graph holds under its uid: a call stores each
\* spec it inserts and leaves every spec inserted before it in place.
C10_EveryInsertedSpecStays ==
    [][AddGraphSpecStep =>
            LET new == Taken(cur'.graphSpec, dmHosts)
            IN  /\ \A i \in 1..Len(new) :
                      /\ uid_for_drop(new[i]) \in DOMAIN graph'
                      /\ graph'[uid_for_drop(new[i])] = new[i]
                /\ \A k \in DOMAIN graph :
                      k \in DOMAIN graph' /\ graph'[k] = graph[k]]_vars

\* C10 (amended): after any sequence of addGraphSpec calls the graph holds,
\* under the uid of every spec that was inserted, the spec inserted last
\* under that uid: a call stores the last spec it inserts under each uid,
\* leaves the specs of all other uids in place, and nothing else changes the
\* graph.
C10_LastInsertedSpecIsStored ==
    [][/\ AddGraphSpecStep =>
            LET new == Taken(cur'.graphSpec, dmHosts)
            IN  /\ \A i \in 1..Len(new) :
                      /\ uid_for_drop(new[i]) \in DOMAIN graph'
                      /\ graph'[uid_for_drop(new[i])] = LastWith(new, uid_for_drop(new[i]))
                /\ \A k \in DOMAIN graph \ UidsOf(new) :
                      k \in DOMAIN graph' /\ graph'[k] = graph[k]
                /\ DOMAIN graph' = DOMAIN graph \cup UidsOf(new)
       /\ ~AddGraphSpecStep => graph' = graph]_vars

\* C10 witness: drop A was inserted on h2 together with drop B, which kept its
\* link to A, and inserted again on h1 by the call that has just ended; the
\* graph holds the A of that last call
C10_Witness ==
    /\ cur.op = "addGraphSpec" /\ pc = "done"
    /\ cur.graphSpec = <<DropSpec("A", Absent, "h1", <<>>)>>
    /\ "A" \in DOMAIN graph /\ graph["A"] = cur.graphSpec[1]
    /\ "B" \in DOMAIN graph /\ graph["B"] = DropSpec("B", Absent, "h2", <<"A">>)

----------------------------------------------------------------------------
(* deploySession, the trigger phase: C11 - C13 *)

\* the call in progress was given a completed drop that the graph does not hold
UnknownCompleted ==
    \E i \in 1..Len(cur.completedDrops) : cur.completedDrops[i] \notin DOMAIN graph

\* the call in progress has left work of this kind in the pool
Queued(f) == \E i \in 1..Len(taskqueue) : taskqueue[i].call = cur.call /\ taskqueue[i].f = f

Triggers == {e \in log : e.call = cur.call /\ e.ev = "trigger_drops"}

\* the completed drops of the call in progress whose spec names this node
Owned(n) == SelectSeq(cur.completedDrops, LAMBDA u : graph[u].node = n)

\* C12: when deploySession is given completed drops that are all known, every
\* trigger_drops it makes goes, once, to a node that owns some of them, at the
\* node port, with exactly the uids that node owns; and when the call returns
\* every node that owns one has been triggered.
C12_TriggersGroupedByNode ==
    cur.op = "deploySession" =>
        /\ \A e \in Triggers :
              /\ e.n = 1
              /\ e.port = "NODE_DEFAULT_REST_PORT"
              /\ Owned(e.host) # <<>>
              /\ e.arg = [uids |-> Owned(e.host)]
        /\ (pc = "done" /\ result.kind = "ok" /\ cur.completedDrops # <<>>) =>
              \A n \in Nodes : Owned(n) # <<>> => \E e \in Triggers : e.host = n

\* C12 witness: deploySession has returned after it triggered A on h1 and B
\* on h2
C12_Witness ==
    /\ cur.op = "deploySession" /\ pc = "done" /\ result.kind = "ok"
    /\ cur.completedDrops = <<"A", "B">>
    /\ {e.host : e \in Triggers} = {"h1", "h2"}

\* the nodes on which trigger_drops of the call in progress has failed
TriggerFailed == {e.host : e \in {x \in Triggers : ~x.ok}}

\* C13 (as claimed): when trigger_drops fails on some node the trigger phase
\* has still tried every node that owns a completed drop, and the caller gets
\* a SubManagerException whose map has exactly the nodes that failed.
C13_TriggerFailuresRaiseSubManager ==
    [][(pc = "deploy_trigger" /\ pc' = "done" /\ TriggerFailed # {}) =>
            /\ \A n \in Nodes : Owned(n) # <<>> => \E e \in Triggers : e.host = n
            /\ result'.kind = "SubManagerException"
            /\ result'.sid = cur.sid
            /\ result'.hosts = TriggerFailed]_vars

----------------------------------------------------------------------------
(* The session registry: C14 *)

\* C14 (as claimed): once createSession(sid) has returned getSessionIds()
\* contains sid, and once destroySession(sid) has returned it does not.
C14_RegistryFollowsSessions ==
    /\ (pc = "done" /\ cur.op = "createSession" /\ result.kind = "ok") =>
            cur.sid \in Range(sessionIds)
    /\ (pc = "done" /\ cur.op = "destroySession" /\ result.kind = "ok") =>
            cur.sid \notin Range(sessionIds)

----------------------------------------------------------------------------
(* addGraphSpec, the fan-out and the stored relationships: C15 - C16 *)

\* the dm.addGraphSpec calls the call in progress has made
GraphDeliveries == {e \in log : e.call = cur.call /\ e.ev = "addGraphSpec"}

\* the dropSpecs of the call in progress whose partition is this host, in the
\* order they were submitted
OwnSpecs(h) == Bucket(cur.graphSpec, h)

\* C15 (as claimed): every dm.addGraphSpec of an addGraphSpec call goes, once,
\* to a child that owns a spec of the call, with exactly the specs whose
\* partition is that child, in their submitted order; a child that owns none
\* (every child when the specs are empty) receives no addGraphSpec; and when
\* the call returns every owning child has received its bucket.
C15_EachChildGetsItsBucket ==
    cur.op = "addGraphSpec" =>
        /\ \A e \in GraphDeliveries :
              /\ e.n = 1
              /\ OwnSpecs(e.host) # <<>>
              /\ e.arg = [specs |-> OwnSpecs(e.host)]
        /\ (pc = "done" /\ result.kind = "ok") =>
              \A h \in Hosts : OwnSpecs(h) # <<>> => \E e \in GraphDeliveries : e.host = h

\* C16 (as claimed): addGraphSpec accumulates: the inter-partition map of a
\* session still holds, after a further addGraphSpec on that session has
\* stored its relationships, every relationship it held before.
C16_DropRelsAccumulate ==
    [][(AddGraphSpecStep /\ pc' = "addGraphSpec" /\ cur'.sid \in DOMAIN drop_rels) =>
            \A a, b \in Nodes :
                Range(RelsAt(drop_rels[cur'.sid], a, b))
                    \subseteq Range(RelsAt(drop_rels'[cur'.sid], a, b))]_vars

----------------------------------------------------------------------------
(* deploySession on a created session: C17 *)

\* the dm.deploySession calls the call in progress has made
Deployments == {e \in log : e.call = cur.call /\ e.ev = "deploySession"}

\* C17 (as claimed): a deploySession on a created session, on which no host
\* fails, ends with dm.deploySession sent exactly once to every direct child,
\* whether or not addGraphSpec was called for the session.
C17_DeployReachesEveryChild ==
    (pc = "done" /\ cur.op = "deploySession" /\ cur.sid \in Range(sessionIds)
     /\ Failed = {}) =>
        /\ {e.host : e \in Deployments} = Range(dmHosts)
        /\ \A e \in Deployments : e.n = 1

----------------------------------------------------------------------------
(* getGraph: C18 *)

\* the answers the children gave to the dm.getGraph of the call in progress
GraphAnswers == {e.arg.graph : e \in {x \in log : x.call = cur.call /\ x.ev = "getGraph" /\ x.ok}}

\* how often x occurs in the sequence
Count(seq, x) == Cardinality({i \in 1..Len(seq) : seq[i] = x})

\* C18: the mapping getGraph returns has exactly the keys the children
\* returned; every relationship recorded for the session is attached to the
\* spec of its rhs as one link to its lhs (one link for the two symmetric
\* copies), on top of the links the child returned; no other link is added.
C18_GetGraphReattachesEdges ==
    (pc = "done" /\ cur.op = "getGraph" /\ result.kind = "ok") =>
        /\ DOMAIN collect = UNION {DOMAIN a : a \in GraphAnswers}
        /\ \A k \in DOMAIN collect : \E a \in GraphAnswers :
              /\ k \in DOMAIN a
              /\ \A o \in Oids \cup {"uB"} :
                    Count(collect[k].links, o) =
                        Count(a[k].links, o)
                        + Cardinality({rel \in AllRels(drop_rels[cur.sid]) :
                                          rel.rhs = k /\ rel.lhs = o})

\* C18 witness: getGraph has returned A with its link to B attached again
C18_Witness ==
    /\ pc = "done" /\ cur.op = "getGraph" /\ result.kind = "ok"
    /\ DOMAIN collect = {"A", "B"}
    /\ collect["A"].links = <<"B">>
    /\ AllRels(drop_rels[cur.sid]) # {}

----------------------------------------------------------------------------
(* add_node at the Island tier: C19 *)

\* C19 (as claimed): the nodes list equals the host list, each add_node(n)
\* adds n to the host list exactly once, and a fan-out contacts every host of
\* the list once.
C19_AddNodeAppendsOnce ==
    [][/\ nodes' = dmHosts'
       /\ dmHosts' # dmHosts => \E n \in Hosts : dmHosts' = Append(dmHosts, n)
       /\ \A e \in log' : e.n = 1]_vars

----------------------------------------------------------------------------
(* shutdown: C20 *)

\* the calling thread is inside shutdown
InShutdown == pc \in {"shutdown_join", "shutdown_close", "shutdown_tp"}

\* C20: shutdown eventually returns, and when it has returned the DMChecker
\* thread has ended and the pool holds no work item, running or queued.
C20_ShutdownJoinsThreads ==
    /\ [](( pc = "done" /\ cur.op = "shutdown") =>
            (result.kind = "ok" /\ dmChecker.at = "exited" /\ taskqueue = <<>>))
    /\ (InShutdown ~> (pc = "done" /\ cur.op = "shutdown"))

\* C20 witness: shutdown has returned on a manager with hosts, its DMChecker
\* thread has ended and its pool is closed
C20_Witness ==
    /\ pc = "done" /\ cur.op = "shutdown" /\ result.kind = "ok"
    /\ dmHosts = <<"h1", "h2">>
    /\ dmChecker.at = "exited" /\ tpState = "CLOSE"

----------------------------------------------------------------------------
(* ensureDM and the DMChecker thread: C21 - C22 *)

\* C21: a call of ensureDM runs startDM at most once, and only after its first
\* probe found the port closed; it returns only when its last probe found the
\* port open, and it raises when the remote command exited non-zero or the
\* second probe found the port closed; without a socket.error it ends as the
\* one-step ensureDM does
C21_EnsureDMBootstrapsOnce ==
    \A fr \in ensuring :
        /\ fr.boots <= 1
        /\ fr.boots = 1 => fr.first = "closed"
        /\ fr.at = "returned" =>
                \/ fr.first = "open" /\ fr.boots = 0
                \/ fr.second = "open" /\ fr.boots = 1 /\ fr.status = 0
        /\ fr.status # 0 => fr.at = "raised"
        /\ fr.second = "closed" => fr.at = "raised"
        /\ fr.at \in {"returned", "raised"} /\ "error" \notin {fr.first, fr.second} =>
                Ensured(fr) = ensureDM(fr.first = "open", fr.status,
                                       fr.second = "open")

\* a call that started the DM and found its port open has returned
C21_Witness ==
    \E fr \in ensuring : fr.at = "returned" /\ fr.boots = 1 /\ fr.second = "open"

\* C22: when ensureDM raises in the DMChecker thread the loop logs a warning
\* and goes on with the next host; the thread ends only once the event is
\* set, and until then a failure on one host is followed by ensureDM for the
\* next host of the sweep, and a sweep by the next sweep
C22_CheckerSwallowsFailures ==
    /\ [][\A fr \in CheckerFrames :
            fr.at = "raised" /\ fr \notin ensuring' =>
                /\ dmChecker'.at = "hosts"
                /\ dmChecker'.i = dmChecker.i + 1
                /\ dmChecker'.warned = dmChecker.warned \cup {fr.host}]_vars
    /\ [](dmChecker.at = "exited" => dmChecker.evt)
    /\ (\E fr \in CheckerFrames : fr.at = "raised" /\ dmChecker.i < Len(dmHosts))
            ~> (\/ dmChecker.evt
                \/ \E fr \in CheckerFrames :
                        fr.at = "probe1" /\ fr.host \notin dmChecker.warned)
    /\ (dmChecker.at = "wait" /\ ~dmChecker.evt)
            ~> (dmChecker.evt \/ (dmChecker.at = "hosts" /\ dmChecker.i = 1))

\* the sweep has logged a failure and is in ensureDM for a later host
C22_Witness ==
    /\ ~dmChecker.evt
    /\ dmChecker.warned # {}
    /\ \E fr \in CheckerFrames : fr.host \notin dmChecker.warned

----------------------------------------------------------------------------
(* portIsOpen: C23 - C24 *)

\* C23: portIsOpen returns False on an ECONNRESET without a further attempt;
\* after an ECONNREFUSED it sleeps and tries again only while no more than the
\* timeout has gone by, and returns False once the timeout is reached; with a
\* finite positive timeout every connection attempt starts before the
\* deadline, and the call always ends
C23_ProbeRetriesUntilDeadline ==
    /\ [](/\ probe.last = "ECONNRESET" => probe.at = "returned" /\ ~probe.result
          /\ probe.at = "sleep" =>
                /\ probe.last = "ECONNREFUSED"
                /\ probe.timeout.given => probe.now - probe.start <= probe.timeout.secs
          /\ probe.last = "ECONNREFUSED" /\ probe.at = "returned" =>
                /\ ~probe.result
                /\ probe.timeout.given
                /\ probe.now - probe.start >= probe.timeout.secs
          /\ Bounded(probe.timeout) /\ probe.attempts > 0 =>
                probe.astart - probe.start < probe.timeout.secs)
    /\ (probe.at # "idle" /\ Bounded(probe.timeout))
            ~> (probe.at \in {"returned", "raised"})

\* a refused connection was tried again and the call gave up at the deadline
C23_Witness ==
    /\ probe.at = "returned"
    /\ probe.last = "ECONNREFUSED"
    /\ Bounded(probe.timeout)
    /\ probe.attempts >= 2

\* C24: a call of portIsOpen with timeout=0 makes one connection attempt,
\* whatever the attempt does
C24_ZeroTimeoutSingleAttempt ==
    probe.timeout = Timeout(0) /\ probe.at # "idle" => probe.attempts <= 1

----------------------------------------------------------------------------
(* deploySession, a phase that fails: C25 *)

\* C25: once add_node_subscriptions has failed on a node, the deploySession
\* call sends dm.deploySession to no direct child (none received, none
\* queued); once ensureDM or dm.deploySession has failed on a direct child, it
\* sends trigger_drops to no node
C25_FailedPhaseStopsDeploy ==
    cur.op = "deploySession" =>
        /\ Received("add_node_subscriptions")
                \ Succeeded("add_node_subscriptions") # {} =>
                /\ Received("deploySession") = {}
                /\ ~Queued("deploySession")
        /\ (Attempted \ Succeeded("ensureDM"))
                \cup (Received("deploySession") \ Succeeded("deploySession")) # {} =>
                /\ Triggers = {}
                /\ ~Queued("trigger_drops")

\* a deploySession call with a completed drop has ended: its subscriptions
\* went through and dm.deploySession failed on a direct child
C25_Witness ==
    /\ cur.op = "deploySession"
    /\ pc = "done"
    /\ cur.completedDrops = <<"A">>
    /\ Succeeded("add_node_subscriptions") = {"h1", "h2"}
    /\ Received("deploySession") \ Succeeded("deploySession") # {}

----------------------------------------------------------------------------
(* the graph and the relationships of a session: C26 - C27 *)

\* C26: a deploySession call triggers only uids of drops that were given to
\* its own session, and does not return normally when its completedDrops hold
\* a uid that was given to another session only
C26_GraphIsPerSession ==
    cur.op = "deploySession" =>
        /\ \A e \in Triggers : Range(e.arg.uids) \subseteq UidsOf(TwoGraphs[cur.sid])
        /\ (pc = "done"
            /\ ~(Range(cur.completedDrops) \subseteq UidsOf(TwoGraphs[cur.sid])))
                => result.kind # "ok"

\* C27: destroySession clears the inter-partition relationships of its
\* session: a deploySession on a session that was destroyed, created again and
\* given no graph since sends no add_node_subscriptions (none received, none
\* queued)
C27_DestroyClearsRelationships ==
    (cur.op = "deploySession" /\ cur.sid \in destroyed) =>
        /\ Received("add_node_subscriptions") = {}
        /\ ~Queued("add_node_subscriptions")

----------------------------------------------------------------------------
(* ensureDM in several threads: C28 *)

\* C28: at any time at most one remote start command is in progress for a
\* host, over the DMChecker thread and the workers
C28_OneBootstrapPerHost ==
    \A host \in Hosts :
        Cardinality({fr \in ensuring : fr.host = host /\ fr.at = "bootstrap"}) <= 1

====
